---- MODULE Spec2Model ----
(***************************************************************************)
(* The per-conversation workflow of the music production bot:              *)
(*   - deneme_workflow.py: the webhook, the duplicate filter               *)
(*     (is_duplicate_message / processed_messages) and the hand-over to    *)
(*     the LangGraph workflow (get_state, invoke);                         *)
(*   - system_supervisor.py: the steps of the SystemSupervisor graph and   *)
(*     build_graph (MemorySaver checkpointer, interrupt_before);           *)
(*   - state.py: UnifiedState and create_initial_state.                    *)
(* The decision maker (LLM), the providers and the chat transport are the  *)
(* environment: every result they can return is a nondeterministic choice. *)
(***************************************************************************)
EXTENDS Integers, Sequences, FiniteSets, TLC

VARIABLES
    now,                 \* the wall clock read by datetime.now(), in seconds
    processed_messages,  \* deneme_workflow.processed_messages: phone -> record
    ckpt,                \* MemorySaver: thread_id (phone) -> checkpoint
    hs,                  \* the webhook request each server thread is handling
    obs,                 \* what the environment has observed (history only)
    cfg                  \* the scenario explored: fixed by Init, never changed

vars == <<now, processed_messages, ckpt, hs, obs, cfg>>

----------------------------------------------------------------------------
(* Bounds of the model                                                      *)

\* the clock stops at MaxTime seconds: two windows and two seconds
MaxTime == 62
\* tasks a conversation completes before its user stops writing
MaxCompleted == 2
\* message ids per text of an identity, besides the empty id; the transport
\* can deliver a message with its id again
MaxIds == 1
\* calls of the duplicate filter kept in the history, per phone
MaxHistory == 3
\* the count of consecutive failures of the music stage saturates here
MaxStreak == 3

Phones == {"p1", "p2"}
Handlers == {"h1", "h2"}

\* what a user can write; the five branches of music_selection_handler
Texts == {"1", "2", "ikisi de", "yeniden", "rain"}

\* seconds between two inbound events
Delays == {0, 29, 30, 31}

----------------------------------------------------------------------------
(* Program constants                                                        *)

DUPLICATE_WINDOW_SECONDS == 30

\* the engine's default for the steps of one run; webhook passes only the
\* thread_id in config
recursion_limit == 25

None == "None"

\* selected_audio_index = None (state.py), among the indices 0 and 1
NoIndex == -1

END == "__end__"

----------------------------------------------------------------------------
(* state.py: UnifiedState, reduced to the fields the steps route on, the    *)
(* conversation history (messages) and user_request.                        *)
(* generated_audio_urls is built from the same audio_data as                *)
(* generated_audio_ids (suno_ai.py 100-101) and is represented by it.       *)

\* the entries of messages: f"User: {text}", and the fixed texts of the
\* assistant and of the system, each by a short name
User(text) == <<"User", text>>
Assistant(what) == <<"Assistant", what>>
System(what) == <<"System", what>>

create_initial_state(phone_number, initial_message) ==
    [ phone_number               |-> phone_number,
      messages                   |-> <<User(initial_message)>>,
      user_request               |-> initial_message,
      current_stage              |-> "idle",
      task_queue                 |-> << >>,
      completed_tasks            |-> << >>,
      generated_audio_ids        |-> << >>,
      generated_audio_file_paths |-> << >>,
      selected_audio_index       |-> NoIndex,
      selected_audio_id          |-> None,
      selected_audio_file_path   |-> None,
      is_music_generated         |-> FALSE,
      is_music_selected          |-> FALSE,
      cover_image_path           |-> None,
      is_cover_generated         |-> FALSE,
      video_file_path            |-> None,
      is_video_generated         |-> FALSE,
      is_remake_requested        |-> FALSE,
      error_message              |-> None,
      last_error_stage           |-> None,
      retry_count                |-> 0 ]

\* StateSnapshot.values of a thread_id that has no checkpoint
NoValues == [create_initial_state(None, None) EXCEPT !.messages = << >>]

----------------------------------------------------------------------------
(* Helpers on sequences                                                     *)

Range(s) == { s[i] : i \in 1..Len(s) }

Tail1(s) == IF Len(s) = 0 THEN << >> ELSE Tail(s)

RECURSIVE Without(_, _)
Without(s, x) ==
    IF Len(s) = 0 THEN << >>
    ELSE IF Head(s) = x THEN Without(Tail(s), x)
         ELSE <<Head(s)>> \o Without(Tail(s), x)

\* the Python list index s[i] (0-based); Raise when out of range
Raise == "__raise__"
PyIndex(s, i) == IF i + 1 <= Len(s) THEN s[i + 1] ELSE Raise

----------------------------------------------------------------------------
(* The environment's answers                                                *)

\* base_models.py: CommunicationDecisionBaseModel.action
CommunicationActions ==
    { "send_message", "send_music", "send_cover", "send_video",
      "choice_persona", "task_planner", "wait_user", "finish" }

\* base_models.py: TaskPlannerDecisionBaseModel.tasks, a list the planner is
\* free to fill; the plans explored
Plans ==
    { << >>, <<"music">>, <<"cover">>, <<"video">>, <<"remake">>,
      <<"persona_save">>, <<"music", "cover">>, <<"cover", "video">>,
      <<"music", "cover", "video">>, <<"music", "music">> }

\* suno_ai.py wait_and_download: audio_details, one entry per item that has
\* an audio url; downloaded_file_path is None when the download failed.
\* TRUE = downloaded.
AudioData ==
    { <<TRUE, TRUE>>, <<TRUE, FALSE>>, <<FALSE, TRUE>>, <<FALSE, FALSE>> }

AudioId(i) == IF i = 1 THEN "s1" ELSE "s2"
AudioPath(i) == IF i = 1 THEN "s1.mp3" ELSE "s2.mp3"

audio_ids_of(d) == [ i \in 1..Len(d) |-> AudioId(i) ]
audio_file_adress_of(d) ==
    [ i \in 1..Len(d) |-> IF d[i] THEN AudioPath(i) ELSE None ]

----------------------------------------------------------------------------
(* system_supervisor.py: the steps.  Each operator gives the set of results *)
(* a step can produce from state v: the state after Command.update and the  *)
(* goto, or Raise when an exception leaves the step.                        *)

R(v, goto) == [values |-> v, goto |-> goto]

\* messages is Annotated[List[str], add]: an update is appended
Say_replacing(v, entries) == [v EXCEPT !.messages = entries]

Say(v, entries) == [v EXCEPT !.messages = @ \o entries]
Raised(v) == R(v, Raise)

\* [p for p in paths if p]
NotNone(paths) == Without(paths, None)

\* the LLM picks any action; chain.invoke can raise
communication_agent_results(v) ==
    { R(v, a) : a \in cfg.actions } \cup { Raised(v) }

\* the send is inside try/except: a failure is recorded and routed back
send_message_results(v) ==
    { R(Say(v, <<Assistant("message")>>), "wait_user"),
      R(Say([v EXCEPT !.error_message = "error"],
            <<System("message not sent")>>), "communication_agent") }

\* interrupt() returns the resume value
wait_user_results_silent(v, user_response) ==
    { R([v EXCEPT !.user_request = user_response], "communication_agent") }

wait_user_results(v, user_response) ==
    { R(Say([v EXCEPT !.user_request = user_response],
            <<User(user_response)>>), "communication_agent") }

\* list_personas and send_message are not guarded
choice_persona_results(v) ==
    { R(Say(v, <<Assistant("personas")>>), "wait_user"), Raised(v) }

\* a planner that derives the step's name from the task's tag
first_task_node_by_tag(tasks) ==
    IF Len(tasks) = 0 THEN "communication_agent"
    ELSE IF tasks[1] = "music" THEN "music_generator"
    ELSE IF tasks[1] = "cover" THEN "cover_generator"
    ELSE IF tasks[1] = "video" THEN "video_generator"
    ELSE IF tasks[1] = "remake" THEN "remake_generator"
    ELSE "communication_agent"

first_task_node(tasks) ==
    IF Len(tasks) = 0 THEN "communication_agent"
    ELSE IF tasks[1] = "music" THEN "music_generator"
    ELSE IF tasks[1] = "cover" THEN "cover_generator"
    ELSE IF tasks[1] = "video" THEN "video_generator"
    ELSE IF tasks[1] = "remake" THEN "music_remake"
    ELSE "communication_agent"

task_planner_results(v) ==
    { R(Say([v EXCEPT !.current_stage = "planning", !.task_queue = tasks],
            <<Assistant("plan")>>),
        first_task_node(tasks)) : tasks \in cfg.plans }
    \cup { Raised(v) }

music_generator_max_retry(v) ==
    Say([v EXCEPT !.error_message = "Max retry exceeded",
                  !.current_stage = "idle",
                  !.retry_count = 0,
                  !.task_queue = << >>],
        <<System("max retry")>>)

music_generator_failed(v, error) ==
    Say([v EXCEPT !.error_message = error,
                  !.last_error_stage = "music_generator",
                  !.retry_count = v.retry_count + 1],
        <<System("music failed")>>)

music_generator_success(v, d) ==
    Say([v EXCEPT !.current_stage = "awaiting_music_selection",
                  !.is_music_generated = TRUE,
                  !.generated_audio_ids = audio_ids_of(d),
                  !.generated_audio_file_paths =
                      NotNone(audio_file_adress_of(d)),
                  !.task_queue = Tail1(v.task_queue),
                  !.completed_tasks = v.completed_tasks \o <<"music">>,
                  !.retry_count = 0],
        <<System("music generated")>>)

\* a music stage whose cap comes one failure late
music_generator_results_late(v) ==
    IF v.retry_count >= 3
    THEN { R(music_generator_max_retry(v), "wait_user"), Raised(v) }
    ELSE { Raised(v),
           R(music_generator_failed(v, "error"), "communication_agent") }
         \cup
         { IF NotNone(audio_file_adress_of(d)) = << >>
           THEN R(music_generator_failed(v, "error"),
                  "communication_agent")
           ELSE R(music_generator_success(v, d), "music_selection_prompt")
           : d \in cfg.audio }

music_generator_results(v) ==
    IF v.retry_count >= 2
    THEN { R(music_generator_max_retry(v), "wait_user"), Raised(v) }
    ELSE { Raised(v),
           R(music_generator_failed(v, "error"), "communication_agent") }
         \cup
         { IF NotNone(audio_file_adress_of(d)) = << >>
           THEN R(music_generator_failed(v, "error"),
                  "communication_agent")
           ELSE R(music_generator_success(v, d), "music_selection_prompt")
           : d \in cfg.audio }

\* a prompt that does not look for a downloaded file
music_selection_prompt_results_unchecked(v) ==
    { Raised(v),
      R(Say([v EXCEPT !.current_stage = "awaiting_music_selection"],
            <<Assistant("versions"), System("links sent")>>),
        "music_selection_handler") }

music_selection_prompt_results(v) ==
    { Raised(v),
      IF NotNone(v.generated_audio_file_paths) = << >>
      THEN R(Say([v EXCEPT !.current_stage = "idle"],
                 <<System("no music files")>>), "wait_user")
      ELSE R(Say([v EXCEPT !.current_stage = "awaiting_music_selection"],
                 <<Assistant("versions"), System("links sent")>>),
             "music_selection_handler") }

\* the branches of music_selection_handler on response_lower
selected_index_of(response_lower) ==
    IF response_lower \in {"1", "bir", "birinci", "ilk"} THEN 0
    ELSE IF response_lower \in {"2", "iki", "ikinci"} THEN 1
    ELSE IF response_lower \in {"ikisi de", "her iki"} THEN 0
    ELSE NoIndex

music_selection_remake_counted(v) ==
    [v EXCEPT !.is_remake_requested = TRUE,
              !.current_stage = "generating_music",
              !.retry_count = @ + 1]

music_selection_remake(v) ==
    [v EXCEPT !.is_remake_requested = TRUE,
              !.current_stage = "generating_music"]

\* updates["messages"]: the reply, then what the branch appends
selection_messages(user_response) ==
    <<User(user_response),
      System(IF user_response \in {"1", "bir", "birinci", "ilk"}
             THEN "first selected"
             ELSE IF user_response \in {"2", "iki", "ikinci"}
             THEN "second selected"
             ELSE IF user_response \in {"ikisi de", "her iki"}
             THEN "both accepted"
             ELSE "remake")>>

music_selection_select(v, idx) ==
    [v EXCEPT !.selected_audio_index = idx,
              !.selected_audio_id =
                  IF v.generated_audio_ids # << >>
                  THEN PyIndex(v.generated_audio_ids, idx) ELSE None,
              !.selected_audio_file_path =
                  IF v.generated_audio_file_paths # << >>
                  THEN PyIndex(v.generated_audio_file_paths, idx) ELSE None,
              !.is_music_selected = TRUE,
              !.current_stage =
                  IF "cover" \in Range(v.task_queue)
                  THEN "generating_cover" ELSE "delivering"]

music_selection_handler_results(v, user_response) ==
    LET idx == selected_index_of(user_response) IN
    IF idx = NoIndex
    THEN { R(Say(music_selection_remake(v),
                 selection_messages(user_response)), "music_generator") }
    ELSE LET w == music_selection_select(v, idx) IN
         IF w.selected_audio_id = Raise \/ w.selected_audio_file_path = Raise
         THEN { Raised(v) }
         ELSE { R(Say(w, selection_messages(user_response)),
                  IF "cover" \in Range(v.task_queue)
                  THEN "cover_generator" ELSE "delivery_agent") }

\* suno_ai.py remake_music: no source audio is a failure of the call
music_remake_results(v) ==
    { Raised(v),
      R(Say([v EXCEPT !.error_message = "error"],
            <<System("remake failed")>>), "communication_agent") }
    \cup
    IF v.selected_audio_id = None /\ v.generated_audio_ids = << >>
    THEN { }
    ELSE { R(Say([v EXCEPT !.is_music_generated = TRUE,
                           !.is_music_selected = FALSE,
                           !.generated_audio_ids = audio_ids_of(d),
                           !.generated_audio_file_paths =
                               audio_file_adress_of(d),
                           !.is_remake_requested = FALSE],
                 <<System("music remade")>>),
             "music_selection_prompt") : d \in cfg.audio }

cover_generator_success(v) ==
    LET remaining_tasks == Without(v.task_queue, "cover") IN
    Say([v EXCEPT !.cover_image_path = "cover.png",
                  !.is_cover_generated = TRUE,
                  !.current_stage =
                      IF "video" \in Range(remaining_tasks)
                      THEN "generating_video" ELSE "delivering",
                  !.task_queue = remaining_tasks,
                  !.completed_tasks = v.completed_tasks \o <<"cover">>],
        <<System("cover generated")>>)

cover_generator_results(v) ==
    { Raised(v),
      R(cover_generator_success(v),
        IF "video" \in Range(Without(v.task_queue, "cover"))
        THEN "video_generator" ELSE "delivery_agent"),
      R(Say([v EXCEPT !.error_message = "error",
                      !.last_error_stage = "cover_generator"],
            <<System("cover failed")>>), "communication_agent") }

video_generator_success(v) ==
    Say([v EXCEPT !.video_file_path = "video.mp4",
                  !.is_video_generated = TRUE,
                  !.current_stage = "delivering",
                  !.task_queue = Without(v.task_queue, "video"),
                  !.completed_tasks = v.completed_tasks \o <<"video">>],
        <<System("video generated")>>)

video_generator_results(v) ==
    IF v.cover_image_path = None \/ v.selected_audio_file_path = None
    THEN { R(Say([v EXCEPT !.error_message = "error"],
                 <<System("video needs music and cover")>>),
             "communication_agent") }
    ELSE { R(video_generator_success(v), "delivery_agent"),
           R(Say([v EXCEPT !.error_message = "error",
                           !.last_error_stage = "video_generator"],
                 <<System("video failed")>>), "communication_agent") }

\* the closing send_message is not guarded
delivery_agent_results(v) ==
    { R(Say([v EXCEPT !.current_stage = "completed"],
            <<System("delivered"), Assistant("closing")>>), "wait_user"),
      Raised(v) }

\* returns the whole state as its update, so the add reducer appends
\* messages to itself; the edge finish -> END ends the run
finish_results(v) == { R(Say(v, v.messages), END) }

send_music_results(v) ==
    { R(Say(v, <<System(m)>>), "communication_agent") :
        m \in IF v.selected_audio_file_path = None
              THEN {"no music"} ELSE {"music sent", "music not sent"} }
send_cover_results(v) ==
    { R(Say(v, <<System(m)>>), "communication_agent") :
        m \in IF v.cover_image_path = None
              THEN {"no cover"} ELSE {"cover sent", "cover not sent"} }
send_video_results(v) ==
    { R(Say(v, <<System(m)>>), "communication_agent") :
        m \in IF v.video_file_path = None
              THEN {"no video"} ELSE {"video sent", "video not sent"} }

\* build_graph: compile(checkpointer = self.memory, interrupt_before = ...)
interrupt_before == { "wait_user", "music_selection_handler" }

\* build_graph: set_entry_point
entry_point == "communication_agent"

\* build_graph: the names given to add_node
Nodes ==
    { "communication_agent", "send_message", "wait_user", "choice_persona",
      "send_music", "send_cover", "send_video", "task_planner",
      "music_generator", "music_selection_prompt", "music_selection_handler",
      "music_remake", "cover_generator", "video_generator", "delivery_agent",
      "finish" }

\* what the step registered under a name can return, given the state and,
\* for the two steps that read one, the resume value
node_results(node, v, text) ==
    CASE node = "communication_agent" -> communication_agent_results(v)
      [] node = "send_message" -> send_message_results(v)
      [] node = "wait_user" -> wait_user_results(v, text)
      [] node = "choice_persona" -> choice_persona_results(v)
      [] node = "send_music" -> send_music_results(v)
      [] node = "send_cover" -> send_cover_results(v)
      [] node = "send_video" -> send_video_results(v)
      [] node = "task_planner" -> task_planner_results(v)
      [] node = "music_generator" -> music_generator_results(v)
      [] node = "music_selection_prompt" -> music_selection_prompt_results(v)
      [] node = "music_selection_handler" ->
            music_selection_handler_results(v, text)
      [] node = "music_remake" -> music_remake_results(v)
      [] node = "cover_generator" -> cover_generator_results(v)
      [] node = "video_generator" -> video_generator_results(v)
      [] node = "delivery_agent" -> delivery_agent_results(v)
      [] node = "finish" -> finish_results(v)

----------------------------------------------------------------------------
(* deneme_workflow.py: the duplicate filter                                 *)

\* an inbound message: WhatsApp gives every message its own id; a
\* redelivery carries the same phone, text and id.  NoId is the '' that
\* parse_webhook returns when the key has no id.
NoId == << >>
MessageIds(phone, text) ==
    { NoId } \cup { <<phone, text, k>> : k \in 1..cfg.ids }

\* md5 of f"{phone}:{text}": equal digests for equal strings, and distinct
\* ones for the distinct strings of the model
get_message_hash(phone, text) == <<"md5", phone, ":", text>>

\* phone not in processed_messages
NoRecord == [message_id |-> NoId, hash |-> << >>, timestamp |-> -1]

\* a filter that never forgets a record
expired_never(data, t) == FALSE

\* a filter that forgets a record one second late
expired_late(data, t) ==
    data # NoRecord /\ t - data.timestamp > DUPLICATE_WINDOW_SECONDS + 1

\* lines 50-56: the records older than the window are deleted
expired(data, t) ==
    data # NoRecord /\ t - data.timestamp > DUPLICATE_WINDOW_SECONDS

purge(pm, t) ==
    [ p \in Phones |-> IF expired(pm[p], t) THEN NoRecord ELSE pm[p] ]

\* lines 62-65
same_id(prev, message_id) ==
    message_id # NoId /\ prev.message_id = message_id

\* a filter whose window is one second short
same_hash_in_short_window(prev, msg_hash, t) ==
    prev.hash = msg_hash /\ t - prev.timestamp < DUPLICATE_WINDOW_SECONDS - 1

\* lines 67-72
same_hash_in_window(prev, msg_hash, t) ==
    prev.hash = msg_hash /\ t - prev.timestamp < DUPLICATE_WINDOW_SECONDS

\* lines 58-72, on the purged table
duplicate_decision(pm, phone, text, message_id, t) ==
    /\ pm[phone] # NoRecord
    /\ \/ same_id(pm[phone], message_id)
       \/ same_hash_in_window(pm[phone], get_message_hash(phone, text), t)

\* lines 75-79
new_record(phone, text, message_id, t) ==
    [message_id |-> message_id,
     hash       |-> get_message_hash(phone, text),
     timestamp  |-> t]

----------------------------------------------------------------------------
(* The server threads and the checkpoints                                   *)

Idle(status) ==
    [pc |-> "idle", phone |-> None, text |-> None, message_id |-> NoId,
     t |-> 0, mode |-> None, node |-> None, values |-> NoValues,
     steps |-> 0, expired_phones |-> {}, status |-> status]

\* get_state of a thread_id MemorySaver holds nothing for: next is empty
NoCkpt == [values |-> NoValues, next |-> None]

\* The fields a step reads to decide what it does.  The other fields are
\* only written by the steps; a scenario keeps the ones named in
\* cfg.observe and leaves the rest at their initial value.
ControlFields ==
    { "phone_number", "task_queue", "retry_count", "generated_audio_ids",
      "generated_audio_file_paths", "selected_audio_id",
      "selected_audio_file_path", "cover_image_path" }

Observed(v) ==
    [ f \in DOMAIN v |->
        IF f \in ControlFields \cup cfg.observe THEN v[f] ELSE NoValues[f] ]

\* history kept for the properties
Call(text, message_id, t, result) ==
    [text |-> text, message_id |-> message_id, at |-> t, result |-> result]

Remember(calls, c) ==
    IF cfg.history = 0 THEN << >>
    ELSE IF Len(calls) < cfg.history THEN Append(calls, c)
    ELSE Append(Tail(calls), c)

\* calls:    the last calls of is_duplicate_message, per phone
\* lost:     the step a conversation was suspended at when the process was
\*           restarted, until its next event is handed to the workflow
\* streak:   failures of the music stage since its last success or forced
\*           termination
\* failed:   the same for the other generating stages, for each stage the
\*           scenario tracks
\* consumed: the message ids handed to workflow.invoke
\* rejected: video_generator found its inputs missing in the run that is
\*           going on
OtherStages == { "music_remake", "cover_generator", "video_generator" }

NoObs ==
    [calls    |-> [p \in Phones |-> << >>],
     lost     |-> [p \in Phones |-> None],
     streak   |-> [p \in Phones |-> 0],
     failed   |-> [p \in Phones |-> [s \in OtherStages |-> 0]],
     consumed |-> [p \in Phones |-> {}],
     rejected |-> [p \in Phones |-> FALSE]]

Consume(o, phone, message_id) ==
    [o EXCEPT !.lost[phone] = None,
              !.rejected[phone] = FALSE,
              !.consumed[phone] =
                 IF "consumed" \in cfg.watch /\ message_id # NoId
                 THEN @ \cup {message_id} ELSE @]

Init0 ==
    /\ now = 0
    /\ processed_messages = [p \in Phones |-> NoRecord]
    /\ ckpt = [p \in Phones |-> NoCkpt]
    /\ hs = [h \in Handlers |-> Idle("none")]
    /\ obs = NoObs

----------------------------------------------------------------------------
(* deneme_workflow.py: webhook                                              *)

\* lines 134-144: a request arrives d seconds after the previous one and is
\* parsed.  A user stops writing at the bounds of the scenario.
webhook(h) ==
    /\ h \in cfg.handlers
    /\ hs[h].pc = "idle"
    /\ \E p \in cfg.phones, text \in cfg.texts, d \in cfg.delays :
         \E message_id \in MessageIds(p, text) :
           /\ now + d <= cfg.horizon
           /\ Len(ckpt[p].values.completed_tasks) < MaxCompleted
           /\ cfg.history = 0 \/ Len(obs.calls[p]) < cfg.history
           /\ now' = now + d
           /\ hs' = [hs EXCEPT ![h] =
                       [Idle("none") EXCEPT !.pc = "filter", !.phone = p,
                                            !.text = text,
                                            !.message_id = message_id]]
    /\ UNCHANGED <<processed_messages, ckpt, obs, cfg>>

\* lines 139-140: parse_webhook returned None
webhook_ignored(h) ==
    /\ h \in cfg.handlers
    /\ hs[h].pc = "idle"
    /\ hs[h].status # "ignored"
    /\ hs' = [hs EXCEPT ![h] = Idle("ignored")]
    /\ UNCHANGED <<now, processed_messages, ckpt, obs, cfg>>

\* is_duplicate_message, lines 47-72: read the clock, purge, decide; on a
\* duplicate the webhook answers duplicate_ignored (lines 147-148)
is_duplicate_message(h) ==
    /\ hs[h].pc = "filter"
    /\ LET r == hs[h]
           pm == purge(processed_messages, now)
           dup == duplicate_decision(pm, r.phone, r.text, r.message_id, now)
       IN /\ processed_messages' = pm
          /\ hs' = [hs EXCEPT ![h] =
                      IF dup THEN Idle("duplicate_ignored")
                      ELSE [r EXCEPT !.pc = "record", !.t = now]]
          /\ obs' = [obs EXCEPT !.calls[r.phone] =
                      Remember(@, Call(r.text, r.message_id, now, dup))]
    /\ UNCHANGED <<now, ckpt, cfg>>

\* is_duplicate_message, lines 74-81: record the message, return False
record_message(h) ==
    /\ hs[h].pc = "record"
    /\ LET r == hs[h] IN
       /\ processed_messages' =
            [processed_messages EXCEPT ![r.phone] =
                new_record(r.phone, r.text, r.message_id, r.t)]
       /\ hs' = [hs EXCEPT ![h].pc = "get_state", ![h].t = 0]
    /\ UNCHANGED <<now, ckpt, obs, cfg>>

\* The same call as the server's threads can interleave it: the table is a
\* dict shared by all of them, with no lock.
\* lines 47-54: read the clock and collect the phones whose record expired
expired_phones(h) ==
    /\ hs[h].pc = "filter"
    /\ hs' = [hs EXCEPT ![h].pc = "purge", ![h].t = now,
                        ![h].expired_phones =
                           { p \in Phones : expired(processed_messages[p], now) }]
    /\ UNCHANGED <<now, processed_messages, ckpt, obs, cfg>>

\* lines 55-72: del processed_messages[p] for each phone collected, whatever
\* its record is by now, then the decision; del raises KeyError, out of the
\* webhook, when another thread has deleted the record already, after any
\* of the other deletions
delete_expired(h) ==
    /\ hs[h].pc = "purge"
    /\ LET r == hs[h]
           there == { p \in r.expired_phones :
                        processed_messages[p] # NoRecord }
           del(D) == [ p \in Phones |->
                        IF p \in D THEN NoRecord ELSE processed_messages[p] ]
       IN IF there = r.expired_phones
          THEN LET pm == del(there)
                   dup == duplicate_decision(pm, r.phone, r.text,
                                             r.message_id, r.t)
               IN /\ processed_messages' = pm
                  /\ hs' = [hs EXCEPT ![h] =
                              IF dup THEN Idle("duplicate_ignored")
                              ELSE [r EXCEPT !.pc = "record",
                                             !.expired_phones = {}]]
                  /\ obs' = [obs EXCEPT !.calls[r.phone] =
                              Remember(@, Call(r.text, r.message_id, r.t,
                                               dup))]
          ELSE /\ \E D \in SUBSET there : processed_messages' = del(D)
               /\ hs' = [hs EXCEPT ![h] = Idle("error")]
               /\ obs' = obs
    /\ UNCHANGED <<now, ckpt, cfg>>

\* lines 161-196: get_state and the choice between resume, busy and start
resumable_always(next) == TRUE

resumable(next) == next \in {"wait_user", "music_selection_handler"}

get_state(h) ==
    /\ hs[h].pc = "get_state"
    /\ LET next == ckpt[hs[h].phone].next IN
       hs' = [hs EXCEPT ![h] =
                IF next # None
                THEN IF resumable(next)
                     THEN [@ EXCEPT !.pc = "invoke", !.mode = "resume"]
                     ELSE Idle("processing_in_progress")
                ELSE [@ EXCEPT !.pc = "invoke", !.mode = "start"]]
    /\ UNCHANGED <<now, processed_messages, ckpt, obs, cfg>>

\* workflow.invoke(initial_state): the input overwrites every key of the
\* thread's state, except messages, to which the add reducer appends, and
\* the run starts at the entry point
invoke_start(h) ==
    /\ hs[h].pc = "invoke"
    /\ hs[h].mode = "start"
    /\ LET v == Observed(Say(
                    [create_initial_state(hs[h].phone, hs[h].text)
                       EXCEPT !.messages = ckpt[hs[h].phone].values.messages],
                    <<User(hs[h].text)>>)) IN
       /\ ckpt' = [ckpt EXCEPT ![hs[h].phone] =
                     [values |-> v, next |-> entry_point]]
       /\ hs' = [hs EXCEPT ![h].pc = "run", ![h].node = entry_point,
                           ![h].text = None, ![h].message_id = NoId,
                           ![h].values = v]
    /\ obs' = Consume(obs, hs[h].phone, hs[h].message_id)
    /\ UNCHANGED <<now, processed_messages, cfg>>

\* workflow.invoke(Command(resume = text)): the run loads the thread's
\* checkpoint and continues at its next step with text as resume value
invoke_resume(h) ==
    /\ hs[h].pc = "invoke"
    /\ hs[h].mode = "resume"
    /\ LET c == ckpt[hs[h].phone] IN
       hs' = [hs EXCEPT ![h] =
                IF c.next = None THEN Idle("processed")
                ELSE [@ EXCEPT !.pc = "run", !.node = c.next,
                               !.message_id = NoId, !.values = c.values]]
    /\ obs' = Consume(obs, hs[h].phone, hs[h].message_id)
    /\ UNCHANGED <<now, processed_messages, ckpt, cfg>>

\* one step of the run: the checkpoint is written after the step, and the
\* resume value has been consumed by the step's interrupt(); a step
\* named in interrupt_before, or END, ends the run (lines 180, 207, 210);
\* an exception leaves the checkpoint at the step that raised and makes the
\* webhook answer error (lines 212-226)
Commit(h, r) ==
    /\ cfg.limit = 0 \/ hs[h].steps < cfg.limit
    /\ IF r.goto = Raise
       THEN /\ hs' = [hs EXCEPT ![h] = Idle("error")]
            /\ UNCHANGED ckpt
       ELSE /\ ckpt' = [ckpt EXCEPT ![hs[h].phone] =
                          [values |-> Observed(r.values),
                           next |-> IF r.goto = END THEN None ELSE r.goto]]
            /\ hs' = [hs EXCEPT ![h] =
                        IF r.goto = END \/ r.goto \in interrupt_before
                        THEN Idle("processed")
                        ELSE [@ EXCEPT !.node = r.goto, !.text = None,
                                       !.values = Observed(r.values),
                                       !.steps =
                                          IF cfg.limit = 0 THEN 0 ELSE @ + 1]]
    /\ UNCHANGED <<now, processed_messages, cfg>>

\* the engine stops a run that has made recursion_limit steps without coming
\* to a suspension or to END: GraphRecursionError, which the webhook answers
\* like any other exception and which leaves the checkpoint where it is
recursion_error(h) ==
    /\ hs[h].pc = "run"
    /\ cfg.limit > 0
    /\ hs[h].steps >= cfg.limit
    /\ hs' = [hs EXCEPT ![h] = Idle("error")]
    /\ UNCHANGED <<now, processed_messages, ckpt, obs, cfg>>

At(h, node) == hs[h].pc = "run" /\ hs[h].node = node

communication_agent(h) ==
    /\ At(h, "communication_agent")
    /\ \E r \in communication_agent_results(hs[h].values) : Commit(h, r)
    /\ obs' = obs

send_message(h) ==
    /\ At(h, "send_message")
    /\ \E r \in send_message_results(hs[h].values) : Commit(h, r)
    /\ obs' = obs

wait_user(h) ==
    /\ At(h, "wait_user")
    /\ \E r \in wait_user_results(hs[h].values, hs[h].text) : Commit(h, r)
    /\ obs' = obs

choice_persona(h) ==
    /\ At(h, "choice_persona")
    /\ \E r \in choice_persona_results(hs[h].values) : Commit(h, r)
    /\ obs' = obs

task_planner(h) ==
    /\ At(h, "task_planner")
    /\ \E r \in task_planner_results(hs[h].values) : Commit(h, r)
    /\ obs' = obs

\* the history of the music stage: a failure routes to communication_agent,
\* the success to music_selection_prompt, the max-retry branch to wait_user
music_streak(n, goto) ==
    IF goto = "communication_agent"
    THEN (IF n < cfg.streak THEN n + 1 ELSE n)
    ELSE IF goto = Raise THEN n ELSE 0

music_generator(h) ==
    /\ At(h, "music_generator")
    /\ \E r \in music_generator_results(hs[h].values) :
         /\ Commit(h, r)
         /\ obs' = [obs EXCEPT !.streak[hs[h].phone] =
                                  music_streak(@, r.goto)]

music_selection_prompt(h) ==
    /\ At(h, "music_selection_prompt")
    /\ \E r \in music_selection_prompt_results(hs[h].values) : Commit(h, r)
    /\ obs' = obs

music_selection_handler(h) ==
    /\ At(h, "music_selection_handler")
    /\ \E r \in music_selection_handler_results(hs[h].values, hs[h].text) :
         Commit(h, r)
    /\ obs' = obs

\* the history of another generating stage: the branch taken after the
\* provider was attempted and failed appends its own message and routes to
\* communication_agent, the success routes on
FailureMessages ==
    { System("remake failed"), System("cover failed"), System("video failed") }

\* suno_api.remake_music returns without a request when the state holds no
\* music to remake
has_source(v) == v.selected_audio_id # None \/ v.generated_audio_ids # << >>

stage_failed(stage, n, v, r) ==
    IF stage \notin cfg.track \/ r.goto = Raise THEN n
    ELSE IF r.goto # "communication_agent" THEN 0
    ELSE IF /\ r.values.messages[Len(r.values.messages)] \in FailureMessages
            /\ stage = "music_remake" => has_source(v)
            /\ n < cfg.streak
    THEN n + 1
    ELSE n

Attempt(h, stage, r) ==
    /\ Commit(h, r)
    /\ obs' = [obs EXCEPT !.failed[hs[h].phone][stage] =
                             stage_failed(stage, @, hs[h].values, r)]

music_remake(h) ==
    /\ At(h, "music_remake")
    /\ \E r \in music_remake_results(hs[h].values) :
         Attempt(h, "music_remake", r)

cover_generator(h) ==
    /\ At(h, "cover_generator")
    /\ \E r \in cover_generator_results(hs[h].values) :
         Attempt(h, "cover_generator", r)

\* the branch taken when cover_image_path or selected_audio_file_path is
\* missing appends its own message
video_rejected(was, r) ==
    IF "rejected" \notin cfg.watch \/ r.goto = Raise THEN was
    ELSE was \/ r.values.messages[Len(r.values.messages)]
                  = System("video needs music and cover")

video_generator(h) ==
    /\ At(h, "video_generator")
    /\ \E r \in video_generator_results(hs[h].values) :
         /\ Commit(h, r)
         /\ obs' = [obs EXCEPT
                     !.failed[hs[h].phone]["video_generator"] =
                        stage_failed("video_generator", @, hs[h].values, r),
                     !.rejected[hs[h].phone] = video_rejected(@, r)]

delivery_agent(h) ==
    /\ At(h, "delivery_agent")
    /\ \E r \in delivery_agent_results(hs[h].values) : Commit(h, r)
    /\ obs' = obs

finish(h) ==
    /\ At(h, "finish")
    /\ \E r \in finish_results(hs[h].values) : Commit(h, r)
    /\ obs' = obs

send_music(h) ==
    /\ At(h, "send_music")
    /\ \E r \in send_music_results(hs[h].values) : Commit(h, r)
    /\ obs' = obs

send_cover(h) ==
    /\ At(h, "send_cover")
    /\ \E r \in send_cover_results(hs[h].values) : Commit(h, r)
    /\ obs' = obs

send_video(h) ==
    /\ At(h, "send_video")
    /\ \E r \in send_video_results(hs[h].values) : Commit(h, r)
    /\ obs' = obs

\* the process is restarted: processed_messages (module global) and the
\* MemorySaver made in SystemSupervisor.__init__ start empty again, and the
\* requests in flight are gone;
\* the history starts again with the new process
restart ==
    /\ cfg.restarts
    /\ \E p \in Phones : ckpt[p] # NoCkpt
    /\ processed_messages' = [p \in Phones |-> NoRecord]
    /\ ckpt' = [p \in Phones |-> NoCkpt]
    /\ hs' = [h \in Handlers |-> Idle("none")]
    /\ obs' = [NoObs EXCEPT !.lost = [p \in Phones |->
                 IF resumable(ckpt[p].next) THEN ckpt[p].next ELSE None]]
    /\ UNCHANGED <<now, cfg>>

Step(h) ==
    \/ webhook(h)
    \/ webhook_ignored(h)
    \/ is_duplicate_message(h)
    \/ record_message(h)
    \/ get_state(h)
    \/ invoke_start(h)
    \/ invoke_resume(h)
    \/ communication_agent(h)
    \/ send_message(h)
    \/ wait_user(h)
    \/ choice_persona(h)
    \/ task_planner(h)
    \/ music_generator(h)
    \/ music_selection_prompt(h)
    \/ music_selection_handler(h)
    \/ music_remake(h)
    \/ cover_generator(h)
    \/ video_generator(h)
    \/ delivery_agent(h)
    \/ finish(h)
    \/ send_music(h)
    \/ send_cover(h)
    \/ send_video(h)

Next == (\E h \in Handlers : Step(h)) \/ restart

\* requests handled one at a time, one identity, the whole workflow
Init ==
    /\ Init0
    /\ cfg = [handlers |-> {"h1"}, phones |-> {"p1"},
              texts |-> Texts, delays |-> {0},
              horizon |-> 0, ids |-> 0, history |-> 0,
              restarts |-> TRUE, observe |-> {"completed_tasks"},
              watch |-> {}, streak |-> MaxStreak, track |-> {},
              limit |-> 0,
              actions |-> CommunicationActions,
              plans |-> { <<"music">>, <<"cover">>, <<"video">>,
                          <<"remake">>, <<"music", "cover", "video">> },
              audio |-> { <<TRUE, TRUE>>, <<TRUE, FALSE>>, <<FALSE, FALSE>> }]

Spec == Init /\ [][Next]_vars

----------------------------------------------------------------------------
(* The conversational part of the workflow: the decision maker only talks   *)
(* (send_message), waits (wait_user) or ends the conversation (finish).     *)

Talk == { "send_message", "wait_user", "finish" }

TalkStep(h) ==
    \/ webhook(h)
    \/ webhook_ignored(h)
    \/ is_duplicate_message(h)
    \/ record_message(h)
    \/ get_state(h)
    \/ invoke_start(h)
    \/ invoke_resume(h)
    \/ communication_agent(h)
    \/ send_message(h)
    \/ wait_user(h)
    \/ finish(h)

NextTalk == \E h \in Handlers : TalkStep(h)

NoScenario ==
    [handlers |-> {"h1"}, phones |-> {"p1"}, texts |-> {"1"},
     delays |-> {0}, horizon |-> 0, ids |-> 0, history |-> 0,
     restarts |-> FALSE, observe |-> {}, watch |-> {}, streak |-> 0,
     track |-> {}, limit |-> 0,
     actions |-> Talk, plans |-> {}, audio |-> {}]

\* the duplicate filter over time: an identity sending up to MaxHistory
\* events, with and without message ids, redelivered or not
InitDup ==
    /\ Init0
    /\ cfg = [NoScenario EXCEPT !.texts = {"1", "rain"},
                                !.delays = Delays, !.horizon = MaxTime,
                                !.ids = MaxIds, !.history = MaxHistory,
                                !.actions = {"wait_user"}]

\* the duplicate filter in front of a workflow that only waits for the user
DupStep(h) ==
    \/ webhook(h)
    \/ webhook_ignored(h)
    \/ is_duplicate_message(h)
    \/ record_message(h)
    \/ get_state(h)
    \/ invoke_start(h)
    \/ invoke_resume(h)
    \/ communication_agent(h)
    \/ wait_user(h)

NextDup == \E h \in Handlers : DupStep(h)

SpecDup == InitDup /\ [][NextDup]_vars

\* redelivery by the transport, at once or after the window
InitRedelivery ==
    /\ Init0
    /\ cfg = [NoScenario EXCEPT !.texts = {"1", "rain"},
                                !.delays = {0, 31}, !.horizon = MaxTime,
                                !.ids = MaxIds, !.watch = {"consumed"}]

SpecRedelivery == InitRedelivery /\ [][NextTalk]_vars

\* the threaded server: two requests handled at the same time
InitThreaded ==
    /\ Init0
    /\ cfg = [NoScenario EXCEPT !.handlers = Handlers,
                                !.texts = {"1", "rain"}]

SpecThreaded == InitThreaded /\ [][NextTalk]_vars

\* the user writes something the duplicate filter lets through
webhook_new(h) ==
    /\ webhook(h)
    /\ ~duplicate_decision(purge(processed_messages, now'), hs'[h].phone,
                           hs'[h].text, hs'[h].message_id, now')

\* every request is handled to its answer (the server runs each handler to
\* its return), and the user keeps writing new messages
InitFair ==
    /\ Init0
    /\ cfg = [NoScenario EXCEPT !.texts = {"1", "rain"}, !.ids = MaxIds]

FairSpec ==
    /\ InitFair
    /\ [][NextTalk]_vars
    /\ WF_vars(NextTalk)
    /\ SF_vars(webhook_new("h1"))

----------------------------------------------------------------------------
(* Properties of the workflow, under Spec                                   *)

\* a server thread is inside workflow.invoke for phone p
Running(h, p) == hs[h].pc = "run" /\ hs[h].phone = p

\* C1: at every checkpoint of a conversation, no task is both in task_queue
\* and in completed_tasks, also after a second plan and after a remake.
C1_QueueDisjointFromCompleted ==
    \A p \in Phones :
        Range(ckpt[p].values.task_queue)
            \cap Range(ckpt[p].values.completed_tasks) = {}

\* C3: a conversation that was suspended at wait_user or at
\* music_selection_handler when the process was restarted takes its next
\* inbound event as the resume input of that suspension.
C3_ResumesAfterRestart ==
    \A h \in Handlers :
        (hs[h].pc = "invoke" /\ obs.lost[hs[h].phone] # None)
            => hs[h].mode = "resume"

\* C5: when a run of the workflow has returned to the webhook, normally or
\* by an exception, the conversation's checkpoint is finished or rests at
\* wait_user or music_selection_handler.
C5_RestsAtSuspensionOrEnd ==
    \A p \in Phones :
        (\A h \in Handlers : ~Running(h, p))
            => ckpt[p].next \in {None} \cup interrupt_before

\* C10: the music stage never fails a third consecutive time: by the third
\* attempt the max-retry branch has ended the production, and it leaves
\* retry_count at 0.
C10_ForcedTerminationByThirdAttempt ==
    \A p \in Phones :
        /\ obs.streak[p] < 3
        /\ ckpt[p].values.error_message = "Max retry exceeded"
              => ckpt[p].values.retry_count = 0

----------------------------------------------------------------------------
(* Properties of the duplicate filter, under SpecDup: obs.calls[p] is the   *)
(* sequence of the calls of is_duplicate_message for p, in order            *)

\* p did not send the text of its i-th event in the window before it
FirstInWindow(c, i) ==
    \A k \in 1..(i - 1) :
        c[k].text # c[i].text
            \/ c[i].at - c[k].at > DUPLICATE_WINDOW_SECONDS

LastCall(p) == obs.calls[p][Len(obs.calls[p])]

\* C6: an identity sends the same text twice, less than 30 s apart and with
\* nothing in between: is_duplicate_message returns False for the first and
\* True for the second, and the webhook answers duplicate_ignored to the
\* second without going on to the workflow.
C6_SecondOfTwoIsDuplicate ==
    \A p \in Phones :
        LET c == obs.calls[p] IN
        /\ \A i \in 1..(Len(c) - 1) :
              ( /\ c[i + 1].text = c[i].text
                /\ c[i + 1].at - c[i].at < 30
                /\ FirstInWindow(c, i) )
                  => (c[i].result = FALSE /\ c[i + 1].result = TRUE)
        /\ \A h \in cfg.handlers :
              (Len(c) > 0 /\ LastCall(p).result = TRUE) =>
                 /\ hs[h].phone = p => hs[h].pc = "filter"
                 /\ hs[h].pc = "idle" =>
                       hs[h].status \in {"duplicate_ignored", "ignored"}

C6_Witness ==
    LET c == obs.calls["p1"] IN
    /\ Len(c) = 2
    /\ c[1].text = "rain" /\ c[2].text = "rain"
    /\ c[1].message_id # c[2].message_id
    /\ c[2].at - c[1].at = 29
    /\ c[1].result = FALSE /\ c[2].result = TRUE
    /\ hs["h1"].status = "duplicate_ignored"

\* C7: an event with the same text as any earlier event of the identity
\* that passed the filter less than 30 s before it is a duplicate, whatever
\* the identity sent in between.
C7_NoFalseNegativeInWindow ==
    \A p \in Phones :
        LET c == obs.calls[p] IN
        \A i \in 1..Len(c), j \in 1..Len(c) :
            ( /\ i < j
              /\ c[j].text = c[i].text
              /\ c[i].result = FALSE
              /\ c[j].at - c[i].at < 30 )
                => c[j].result = TRUE

\* C8: an identity sends the same text twice, 31 s or more apart: both
\* calls of is_duplicate_message return False and both events go on to the
\* workflow, also when the two carry the same message_id.
C8_BothPassAfterWindow ==
    \A p \in Phones :
        LET c == obs.calls[p] IN
        /\ \A i \in 1..Len(c), j \in 1..Len(c) :
              ( /\ i < j
                /\ c[j].text = c[i].text
                /\ c[j].at - c[i].at >= 31
                /\ \A k \in (i + 1)..(j - 1) : c[k].text # c[i].text
                /\ FirstInWindow(c, i) )
                  => (c[i].result = FALSE /\ c[j].result = FALSE)
        /\ \A h \in Handlers :
              (hs[h].phone = p /\ hs[h].pc \in {"record", "get_state"})
                 => (Len(c) > 0 /\ LastCall(p).result = FALSE)

C8_Witness ==
    LET c == obs.calls["p1"] IN
    /\ Len(c) = 2
    /\ c[1].text = "rain" /\ c[2].text = "rain"
    /\ c[1].message_id # NoId /\ c[2].message_id = c[1].message_id
    /\ c[2].at - c[1].at = 31
    /\ c[1].result = FALSE /\ c[2].result = FALSE
    /\ hs["h1"].pc = "get_state"

----------------------------------------------------------------------------
(* Properties of the hand-over to the workflow                              *)

\* C9 (SpecRedelivery): a message that was handed to the workflow is not
\* handed to it again as a resume input when the transport delivers it a
\* second time.
C9_RedeliveryNotResumedAgain ==
    \A h \in Handlers :
        (hs[h].pc = "invoke" /\ hs[h].mode = "resume")
            => hs[h].message_id \notin obs.consumed[hs[h].phone]

\* C2 (SpecThreaded): two requests of one identity are never inside
\* workflow.invoke at the same time.
C2_NoOverlappingRuns ==
    \A p \in Phones : \A h1 \in Handlers, h2 \in Handlers :
        (Running(h1, p) /\ Running(h2, p)) => h1 = h2

\* C4 (FairSpec): after a request was answered error, a later event of the
\* identity is eventually run by the workflow.
C4_UsableAfterFailure ==
    \A h \in Handlers :
        [](hs[h].status = "error" => <>(hs[h].pc = "run"))

-----------------------------------------------------------------------------
(* The retry cap and the generating stages                                  *)

\* C11: the second consecutive failure of music generation (retry_count
\* reaches 2) is followed in the same run by the forced termination, so no
\* run comes to rest (suspended or finished) with retry_count still 2.
C11_SecondFailureTerminatesRun ==
    \A p \in cfg.phones :
        ckpt[p].values.retry_count = 2 =>
            ckpt[p].next \notin interrupt_before \cup {None}

\* the whole workflow with the failed attempts of every generating stage
\* in view
InitRetry ==
    /\ Init0
    /\ cfg = [handlers |-> {"h1"}, phones |-> {"p1"},
              texts |-> {"1", "yeniden"}, delays |-> {0},
              horizon |-> 0, ids |-> 0, history |-> 0,
              restarts |-> TRUE, observe |-> {},
              watch |-> {}, streak |-> MaxStreak, track |-> OtherStages,
              limit |-> 0,
              actions |-> CommunicationActions,
              plans |-> { <<"music">>, <<"cover">>, <<"video">>,
                          <<"remake">> },
              audio |-> { <<TRUE, TRUE>> }]

SpecRetry == InitRetry /\ [][Next]_vars

\* C12: the retry cap applies to every generating stage: no stage is
\* attempted a third time after two consecutive failed attempts, so no
\* stage fails three times in a row.
C12_NoThirdAttemptOfAnyStage ==
    \A p \in cfg.phones :
        /\ obs.streak[p] < 3
        /\ \A s \in {"cover_generator", "video_generator", "music_remake"} :
              obs.failed[p][s] < 3

\* C13: whenever music_generator is entered with retry_count >= 2, every
\* outcome of the step is the forced termination: retry_count = 0, an empty
\* task_queue, current_stage idle, and the run suspended at wait_user.
C13_MaxRetryEntryTerminates ==
    \A h \in cfg.handlers :
        (At(h, "music_generator") /\ hs[h].values.retry_count >= 2) =>
            \A r \in music_generator_results(hs[h].values) :
                /\ r.goto = "wait_user"
                /\ r.values.retry_count = 0
                /\ r.values.task_queue = << >>
                /\ r.values.current_stage = "idle"

\* C14: after a successful step of any generating stage (a step that routes
\* on instead of back to communication_agent) retry_count is 0, whichever
\* stage failed before.
C14_SuccessResetsRetryCount ==
    \A h \in cfg.handlers :
        /\ At(h, "music_generator") =>
             \A r \in music_generator_results(hs[h].values) :
                 r.goto = "music_selection_prompt" => r.values.retry_count = 0
        /\ At(h, "music_remake") =>
             \A r \in music_remake_results(hs[h].values) :
                 r.goto = "music_selection_prompt" => r.values.retry_count = 0
        /\ At(h, "cover_generator") =>
             \A r \in cover_generator_results(hs[h].values) :
                 r.goto \in {"video_generator", "delivery_agent"} =>
                     r.values.retry_count = 0
        /\ At(h, "video_generator") =>
             \A r \in video_generator_results(hs[h].values) :
                 r.goto = "delivery_agent" => r.values.retry_count = 0

\* the whole workflow with the stage and the error fields written by every
\* step in view
InitStages ==
    /\ Init0
    /\ cfg = [handlers |-> {"h1"}, phones |-> {"p1"},
              texts |-> {"1", "yeniden"}, delays |-> {0},
              horizon |-> 0, ids |-> 0, history |-> 0,
              restarts |-> TRUE,
              observe |-> {"current_stage", "error_message",
                           "last_error_stage"},
              watch |-> {"rejected"}, streak |-> 0, track |-> {},
              limit |-> 0,
              actions |-> CommunicationActions,
              plans |-> { <<"music">>, <<"cover">>, <<"video">>,
                          <<"remake">>, <<"music", "cover", "video">> },
              audio |-> { <<TRUE, TRUE>>, <<FALSE, FALSE>> }]

SpecStages == InitStages /\ [][Next]_vars

\* C15: after a successful step of a generating stage error_message and
\* last_error_stage are both None.
C15_SuccessClearsErrorFields ==
    \A h \in cfg.handlers :
        /\ At(h, "music_generator") =>
             \A r \in music_generator_results(hs[h].values) :
                 r.goto = "music_selection_prompt" =>
                     /\ r.values.error_message = None
                     /\ r.values.last_error_stage = None
        /\ At(h, "music_remake") =>
             \A r \in music_remake_results(hs[h].values) :
                 r.goto = "music_selection_prompt" =>
                     /\ r.values.error_message = None
                     /\ r.values.last_error_stage = None
        /\ At(h, "cover_generator") =>
             \A r \in cover_generator_results(hs[h].values) :
                 r.goto \in {"video_generator", "delivery_agent"} =>
                     /\ r.values.error_message = None
                     /\ r.values.last_error_stage = None
        /\ At(h, "video_generator") =>
             \A r \in video_generator_results(hs[h].values) :
                 r.goto = "delivery_agent" =>
                     /\ r.values.error_message = None
                     /\ r.values.last_error_stage = None

-----------------------------------------------------------------------------
(* Events and the checkpoint                                                *)

\* C16: an event that arrives while the conversation's checkpoint names a
\* next step other than wait_user or music_selection_handler is answered
\* processing_in_progress, is not handed to the workflow, and leaves the
\* checkpoint (state and next step) exactly as it was.
C16_BusyEventLeavesCheckpoint ==
    [][ \A h \in Handlers :
          ( /\ hs[h].pc = "get_state"
            /\ hs'[h] # hs[h]
            /\ ckpt[hs[h].phone].next
                 \notin {None, "wait_user", "music_selection_handler"} )
          => /\ hs'[h].pc = "idle"
             /\ hs'[h].status = "processing_in_progress"
             /\ ckpt' = ckpt ]_vars

\* an event was answered processing_in_progress while another run of the
\* workflow is between two steps
C16_Witness ==
    \E h, g \in cfg.handlers :
        /\ hs[h].status = "processing_in_progress"
        /\ hs[g].pc = "run"

\* a conversation of up to MaxHistory events in front of a workflow that
\* only waits for the user, with the history and the request in view
InitReply ==
    /\ Init0
    /\ cfg = [NoScenario EXCEPT !.texts = {"1", "rain"},
                                !.delays = {0, 31}, !.horizon = MaxTime,
                                !.history = MaxHistory,
                                !.observe = {"messages", "user_request"},
                                !.actions = {"wait_user"}]

SpecReply == InitReply /\ [][NextDup]_vars

\* C17: while a conversation is suspended at wait_user, the next event the
\* duplicate filter lets through is handed to the workflow as resume value:
\* the run continues at wait_user, which appends exactly one entry
\* 'User: <text>' to messages, sets user_request to that text, and goes on
\* to communication_agent in the same run.
C17_ReplyResumesWaitUser ==
    [][ \A h \in Handlers :
          LET p == hs[h].phone IN
          /\ ( /\ hs[h].pc = "get_state"
               /\ hs'[h] # hs[h]
               /\ ckpt[p].next = "wait_user" )
             => /\ hs'[h].pc = "invoke"
                /\ hs'[h].mode = "resume"
                /\ ckpt' = ckpt
          /\ ( /\ hs[h].pc = "invoke"
               /\ hs'[h] # hs[h]
               /\ hs[h].mode = "resume"
               /\ ckpt[p].next = "wait_user" )
             => /\ At(h, "wait_user")'
                /\ ckpt' = ckpt
          /\ ( /\ At(h, "wait_user")
               /\ hs'[h] # hs[h] )
             => LET text == LastCall(p).text IN
                /\ LastCall(p).result = FALSE
                /\ ckpt'[p].values.messages =
                       ckpt[p].values.messages \o <<User(text)>>
                /\ ckpt'[p].values.user_request = text
                /\ ckpt'[p].next = "communication_agent"
                /\ At(h, "communication_agent")' ]_vars

\* the reply '1' to a conversation begun with 'rain' has been consumed
C17_Witness ==
    /\ At("h1", "communication_agent")
    /\ ckpt["p1"].values.messages = <<User("rain"), User("1")>>
    /\ ckpt["p1"].values.user_request = "1"

-----------------------------------------------------------------------------
(* The first production request of a conversation                           *)

\* C18: in the run started by the first message, with the plan [music],
\* current_stage is idle, then understanding, then planning, then
\* generating_music before the result of the generation is recorded: it is
\* understanding when the planner is entered and generating_music when the
\* generation is entered.
C18_StagesBeforeGeneration ==
    \A h \in cfg.handlers :
        hs[h].mode = "start" =>
            /\ At(h, "task_planner") =>
                 hs[h].values.current_stage = "understanding"
            /\ (At(h, "music_generator")
                  /\ hs[h].values.task_queue = <<"music">>) =>
                 hs[h].values.current_stage = "generating_music"

\* C19: in the run started by the first message, with the plan [music] and a
\* generation that succeeds with at least one downloaded file, task_queue is
\* [music] after planning and empty after the success, and the run suspends
\* at music_selection_handler with current_stage = awaiting_music_selection.
C19_SuspendsAtSelection ==
    \A h \in cfg.handlers :
        hs[h].mode = "start" =>
            /\ (At(h, "music_generator")
                  /\ hs[h].values.task_queue = <<"music">>) =>
                 \A r \in music_generator_results(hs[h].values) :
                     r.goto = "music_selection_prompt" =>
                         r.values.task_queue = << >>
            /\ (At(h, "music_selection_prompt")
                  /\ hs[h].values.task_queue = << >>
                  /\ hs[h].values.generated_audio_file_paths # << >>) =>
                 \A r \in music_selection_prompt_results(hs[h].values) :
                     /\ r.goto = "music_selection_handler"
                     /\ r.values.task_queue = << >>
                     /\ r.values.current_stage = "awaiting_music_selection"

\* C20: at music_selection_handler the reply '2' sets selected_audio_index
\* to 1 and selected_audio_id and selected_audio_file_path to the id and the
\* file of the candidate with index 1, for every candidate list the
\* generation step can have stored.
C20_ReplyTwoSelectsSecond ==
    \A h \in cfg.handlers :
        (At(h, "music_selection_handler") /\ hs[h].text = "2") =>
            \A r \in music_selection_handler_results(hs[h].values, "2") :
                /\ r.goto # Raise
                /\ r.values.selected_audio_index = 1
                /\ r.values.selected_audio_id = AudioId(2)
                /\ r.values.selected_audio_file_path = AudioPath(2)

-----------------------------------------------------------------------------
(* The task queue and the artifacts                                         *)

\* C21: after a music selection is accepted the workflow goes to
\* delivery_agent only if task_queue is empty; if it is not empty, the step
\* of the task at the head of the queue runs next.
C21_SelectionAdvancesToQueueHead ==
    \A h \in cfg.handlers :
        At(h, "music_selection_handler") =>
            \A r \in music_selection_handler_results(hs[h].values,
                                                     hs[h].text) :
                r.goto \notin {Raise, "music_generator"} =>
                    IF hs[h].values.task_queue = << >>
                    THEN r.goto = "delivery_agent"
                    ELSE r.goto = first_task_node(hs[h].values.task_queue)

\* C22: at music_selection_handler a reply that rejects both candidates
\* routes to music_generator with is_remake_requested = TRUE, and the
\* handler's update leaves retry_count as it was.
C22_RejectionRoutesToGenerator ==
    \A h \in cfg.handlers :
        (At(h, "music_selection_handler")
           /\ hs[h].text \in {"hiçbiri", "yeniden", "tekrar"}) =>
            \A r \in music_selection_handler_results(hs[h].values,
                                                     hs[h].text) :
                /\ r.goto = "music_generator"
                /\ r.values.is_remake_requested = TRUE
                /\ r.values.retry_count = hs[h].values.retry_count

\* both candidates are rejected while retry_count holds an earlier failure
C22_Witness ==
    /\ At("h1", "music_selection_handler")
    /\ hs["h1"].text = "yeniden"
    /\ hs["h1"].values.retry_count = 1

\* C23: cover_generator never produces a cover when no music has been
\* generated or selected: the step rejects with an error, is_cover_generated
\* stays FALSE and cover is not added to completed_tasks.
C23_CoverNeedsMusic ==
    \A h \in cfg.handlers :
        (At(h, "cover_generator")
           /\ hs[h].values.generated_audio_ids = << >>
           /\ hs[h].values.selected_audio_id = None) =>
            \A r \in cover_generator_results(hs[h].values) :
                r.goto # Raise =>
                    /\ r.goto = "communication_agent"
                    /\ r.values.error_message # None
                    /\ r.values.is_cover_generated = FALSE
                    /\ r.values.completed_tasks = hs[h].values.completed_tasks

\* C24: when video_generator is invoked without cover_image_path or without
\* selected_audio_file_path it produces no video, records an error and does
\* not change retry_count, and the same run never enters video_generator
\* again.
C24_MissingInputsEndVideoStep ==
    \A h \in cfg.handlers :
        At(h, "video_generator") =>
            /\ ~ obs.rejected[hs[h].phone]
            /\ (hs[h].values.cover_image_path = None
                  \/ hs[h].values.selected_audio_file_path = None) =>
                 \A r \in video_generator_results(hs[h].values) :
                     /\ r.goto = "communication_agent"
                     /\ r.values.is_video_generated = FALSE
                     /\ r.values.error_message # None
                     /\ r.values.retry_count = hs[h].values.retry_count

\* C25: at every checkpoint with is_music_selected TRUE the selected audio
\* is one of the current candidates: selected_audio_id is an element of
\* generated_audio_ids and selected_audio_file_path an element of
\* generated_audio_file_paths, and neither is None.
C25_SelectionIsACandidate ==
    \A h \in cfg.handlers :
        At(h, "music_selection_handler") =>
            \A r \in music_selection_handler_results(hs[h].values,
                                                     hs[h].text) :
                (r.goto # Raise /\ r.values.is_music_selected) =>
                    /\ r.values.selected_audio_id # None
                    /\ r.values.selected_audio_id
                         \in Range(r.values.generated_audio_ids)
                    /\ r.values.selected_audio_file_path # None
                    /\ r.values.selected_audio_file_path
                         \in Range(r.values.generated_audio_file_paths)

-----------------------------------------------------------------------------
(* The history                                                              *)

\* a conversation of up to MaxHistory events in front of a workflow that
\* waits for the user or finishes, with the history in view: first starts,
\* resumes, and new starts on a thread that has reached END
InitHistory ==
    /\ Init0
    /\ cfg = [NoScenario EXCEPT !.texts = {"1", "rain"},
                                !.delays = {0, 31}, !.horizon = MaxTime,
                                !.history = MaxHistory,
                                !.observe = {"messages"},
                                !.actions = {"wait_user", "finish"}]

HistoryStep(h) == DupStep(h) \/ finish(h)

NextHistory == \E h \in Handlers : HistoryStep(h)

SpecHistory == InitHistory /\ [][NextHistory]_vars

IsPrefix(s, t) == Len(s) <= Len(t) /\ SubSeq(t, 1, Len(s)) = s

\* C26: the history is append-only: over every step, every resume and every
\* new start of an identity, the messages before the operation are a prefix
\* of the messages after it.
C26_HistoryIsAppendOnly ==
    [][ \A p \in Phones :
          IsPrefix(ckpt[p].values.messages, ckpt'[p].values.messages) ]_vars

\* a new start on a thread that had reached END has kept what was there
C26_Witness ==
    /\ At("h1", "communication_agent")
    /\ hs["h1"].mode = "start"
    /\ Len(ckpt["p1"].values.messages) = 3
    /\ ckpt["p1"].values.messages[1] = User("rain")
    /\ ckpt["p1"].values.messages[3] = User("1")

-----------------------------------------------------------------------------
(* The queue discipline                                                     *)

\* build_graph: the steps of the task kinds, and the task each one serves
GeneratingStages ==
    { "music_generator", "music_remake", "cover_generator",
      "video_generator" }

task_of(stage) ==
    IF stage = "music_generator" THEN "music"
    ELSE IF stage = "music_remake" THEN "remake"
    ELSE IF stage = "cover_generator" THEN "cover"
    ELSE "video"

stage_results(stage, v) ==
    IF stage = "music_generator" THEN music_generator_results(v)
    ELSE IF stage = "music_remake" THEN music_remake_results(v)
    ELSE IF stage = "cover_generator" THEN cover_generator_results(v)
    ELSE video_generator_results(v)

\* C27: task_queue obeys FIFO discipline: a step of a task changes the queue
\* only by removing its own task from the head (or by emptying it on retry
\* exhaustion), and no task's step runs while another task is ahead of it
\* in the queue.
C27_QueueIsFifo ==
    \A h \in cfg.handlers : \A stage \in GeneratingStages :
        At(h, stage) =>
            LET q == hs[h].values.task_queue IN
            /\ task_of(stage) \in Range(q) => Head(q) = task_of(stage)
            /\ \A r \in stage_results(stage, hs[h].values) :
                 \/ r.goto = Raise
                 \/ r.values.task_queue = q
                 \/ /\ q # << >>
                    /\ Head(q) = task_of(stage)
                    /\ r.values.task_queue = Tail(q)
                 \/ /\ stage = "music_generator"
                    /\ hs[h].values.retry_count >= 2
                    /\ r.values.task_queue = << >>

\* C28: when the step of the task at the head of task_queue succeeds, the
\* tag is removed from the head of task_queue and added to completed_tasks
\* in that step's update, for every task kind.
C28_SuccessMovesTagToCompleted ==
    \A h \in cfg.handlers : \A stage \in GeneratingStages :
        LET q == hs[h].values.task_queue IN
        (At(h, stage) /\ q # << >> /\ Head(q) = task_of(stage)) =>
            \A r \in stage_results(stage, hs[h].values) :
                r.goto \notin {Raise, "communication_agent", "wait_user"} =>
                    /\ r.values.task_queue = Tail(q)
                    /\ r.values.completed_tasks =
                         Append(hs[h].values.completed_tasks, task_of(stage))

\* the outcome of a stage whose provider was attempted and failed
provider_failed(stage, v, r) ==
    /\ r.goto # Raise
    /\ r.values.messages[Len(r.values.messages)]
         \in FailureMessages \cup {System("music failed")}
    /\ stage = "music_remake" => has_source(v)

\* C29: every provider failure in a generating stage records the error
\* (error_message, and last_error_stage set to the failing stage),
\* increments retry_count by exactly one and routes to communication_agent.
C29_FailureIsRecordedAndCounted ==
    \A h \in cfg.handlers : \A stage \in GeneratingStages :
        At(h, stage) =>
            \A r \in stage_results(stage, hs[h].values) :
                provider_failed(stage, hs[h].values, r) =>
                    /\ r.goto = "communication_agent"
                    /\ r.values.error_message # None
                    /\ r.values.last_error_stage = stage
                    /\ r.values.retry_count = hs[h].values.retry_count + 1

-----------------------------------------------------------------------------
(* The length of a run                                                      *)

\* a decision maker that answers send_music or wait_user, under the engine's
\* limit on the steps of a run
InitLoop ==
    /\ Init0
    /\ cfg = [NoScenario EXCEPT !.texts = {"1", "rain"},
                                !.actions = {"send_music", "wait_user"},
                                !.limit = recursion_limit]

LoopStep(h) ==
    \/ webhook(h)
    \/ webhook_ignored(h)
    \/ is_duplicate_message(h)
    \/ record_message(h)
    \/ get_state(h)
    \/ invoke_start(h)
    \/ invoke_resume(h)
    \/ communication_agent(h)
    \/ send_music(h)
    \/ wait_user(h)
    \/ recursion_error(h)

NextLoop == \E h \in Handlers : LoopStep(h)

SpecLoop == InitLoop /\ [][NextLoop]_vars

\* C30: every run started by an inbound event comes to a suspension point or
\* to END after finitely many steps, whatever the decision maker answers: no
\* run goes on until the engine's limit on the steps of a run cuts it off.
C30_RunComesToRest ==
    \A h \in cfg.handlers :
        hs[h].pc = "run" => hs[h].steps < recursion_limit

-----------------------------------------------------------------------------
(* The life of a conversation's state                                       *)

\* what a conversation has produced: the fields of the state that hold the
\* completed tasks and the generated and selected artifacts
Produced(v) ==
    <<v.completed_tasks, v.generated_audio_ids, v.generated_audio_file_paths,
      v.selected_audio_id, v.selected_audio_file_path, v.cover_image_path>>

\* C31: an inbound event never resets the state of its identity: the event
\* that starts a new run, in particular the first one after the workflow
\* reached END, leaves completed_tasks and the generated and selected
\* artifacts as they were.
C31_EventNeverResetsState ==
    [][ \A h \in Handlers :
          ( /\ hs[h].pc = "invoke"
            /\ hs[h].mode = "start"
            /\ hs'[h].pc = "run" )
          => Produced(ckpt'[hs[h].phone].values)
                = Produced(ckpt[hs[h].phone].values) ]_vars

\* C32: when the workflow ends through finish, current_stage is idle or
\* completed at END, from whatever stage the decision maker chose finish.
C32_FinishLeavesIdleOrCompleted ==
    \A h \in cfg.handlers :
        At(h, "finish") =>
            \A r \in finish_results(hs[h].values) :
                /\ r.goto = END
                /\ r.values.current_stage \in {"idle", "completed"}

-----------------------------------------------------------------------------
(* Two identities in front of the duplicate filter                          *)

\* two identities writing in turn, until the clock stops, to a workflow that
\* only waits for the user, with the request in view
InitPhones ==
    /\ Init0
    /\ cfg = [NoScenario EXCEPT !.phones = Phones,
                                !.texts = {"1", "rain"},
                                !.delays = Delays, !.horizon = MaxTime,
                                !.ids = MaxIds,
                                !.observe = {"user_request"},
                                !.actions = {"wait_user"}]

SpecPhones == InitPhones /\ [][NextDup]_vars

\* every record of the table is at most the window old at time t
NoneExpired(pm, t) ==
    \A p \in Phones :
        pm[p] # NoRecord => t - pm[p].timestamp <= DUPLICATE_WINDOW_SECONDS

\* C33: after each call of is_duplicate_message at time t, processed_messages
\* holds no record, of any identity, that is more than 30 seconds older than
\* t, whether the call answered True or recorded the message; and the purge
\* comes before the decision: the record a call found its duplicate in was
\* not older than that.
C33_NoExpiredRecordAfterCall ==
    [][ \A h \in Handlers :
          /\ ( /\ hs[h].pc = "filter"
               /\ hs'[h].pc = "idle" )
             => /\ NoneExpired(processed_messages', now)
                /\ now - processed_messages[hs[h].phone].timestamp
                      <= DUPLICATE_WINDOW_SECONDS
          /\ ( /\ hs[h].pc = "record"
               /\ hs'[h].pc = "get_state" )
             => NoneExpired(processed_messages', hs[h].t) ]_vars

\* a call for p1 has recorded its message and has removed the record of p2,
\* whose event had passed the filter more than 30 seconds before
C33_Witness ==
    /\ hs["h1"].pc = "get_state"
    /\ hs["h1"].phone = "p1"
    /\ processed_messages["p1"].timestamp = now
    /\ ckpt["p2"].next = "wait_user"
    /\ processed_messages["p2"] = NoRecord

-----------------------------------------------------------------------------
(* The range of retry_count                                                 *)

\* C34: at every checkpoint, and in the state every step of a run is given,
\* retry_count is an integer between 0 and 2, after any sequence of
\* successes, failures, remakes and new plans.
C34_RetryCountInRange ==
    /\ \A p \in Phones : ckpt[p].values.retry_count \in 0..2
    /\ \A h \in Handlers : hs[h].values.retry_count \in 0..2

\* two failures of the music stage, then a successful remake: the
\* conversation waits for the selection with retry_count at the cap
C34_Witness ==
    /\ ckpt["p1"].next = "music_selection_handler"
    /\ ckpt["p1"].values.retry_count = 2
    /\ ckpt["p1"].values.last_error_stage = "music_generator"

-----------------------------------------------------------------------------
(* A remake asked for at the selection                                      *)

\* C35: a remake asked for at the selection drops no pending task: when
\* music_selection_handler routes to music_generator and the regeneration
\* succeeds, every task that was in task_queue at the reply is still there.
C35_RemakeKeepsPendingTasks ==
    \A h \in cfg.handlers :
        At(h, "music_selection_handler") =>
            \A r \in music_selection_handler_results(hs[h].values,
                                                     hs[h].text) :
                r.goto = "music_generator" =>
                    \A g \in music_generator_results(r.values) :
                        g.goto = "music_selection_prompt" =>
                            Range(hs[h].values.task_queue)
                                \subseteq Range(g.values.task_queue)

-----------------------------------------------------------------------------
(* Two requests in the duplicate filter at the same time                    *)

\* the call of is_duplicate_message made for the request of h has returned
\* False and the webhook has not yet handed the event to the workflow
PassedFilter(h) == hs[h].pc \in {"record", "get_state"}

\* C36 (SpecThreaded): two requests with the same content for the same
\* identity, handled at the same time, never both pass the duplicate filter:
\* at most one of the two calls of is_duplicate_message returns False.
C36_ConcurrentDuplicatesNotBothPassed ==
    \A h1 \in Handlers, h2 \in Handlers :
        ( /\ h1 # h2
          /\ hs[h1].phone = hs[h2].phone
          /\ hs[h1].text = hs[h2].text
          /\ hs[h1].message_id = hs[h2].message_id )
        => ~ (PassedFilter(h1) /\ PassedFilter(h2))

-----------------------------------------------------------------------------
(* An event sent again                                                      *)

\* the threaded server in front of a user who sends a text again as a new
\* message: every text can come with two message ids of its own
InitResend ==
    /\ Init0
    /\ cfg = [NoScenario EXCEPT !.handlers = Handlers,
                                !.texts = {"1", "rain"},
                                !.ids = MaxIds + 1,
                                !.watch = {"consumed"}]

SpecResend == InitResend /\ [][NextTalk]_vars

\* the record of phone p was written for a message that has been answered
\* without having been handed to workflow.invoke
RecordUnconsumed(p) ==
    LET prev == processed_messages[p] IN
    /\ prev # NoRecord
    /\ prev.message_id # NoId
    /\ prev.message_id \notin obs.consumed[p]
    /\ \A g \in Handlers : hs[g].message_id # prev.message_id

\* C37 (SpecResend): an event that was not consumed by the workflow can be
\* sent again with the same text, as a new message, and passes the duplicate
\* filter when the conversation is resumable: the record of the unconsumed
\* attempt does not make it a duplicate.
C37_ResendAfterUnconsumedPasses ==
    \A h \in Handlers :
        LET p == hs[h].phone IN
        ( /\ hs[h].pc = "filter"
          /\ hs[h].message_id # NoId
          /\ RecordUnconsumed(p)
          /\ processed_messages[p].hash = get_message_hash(p, hs[h].text)
          /\ resumable(ckpt[p].next)
          /\ \A g \in Handlers : ~ Running(g, p) )
        => ~ duplicate_decision(purge(processed_messages, now), p,
                                hs[h].text, hs[h].message_id, now)

-----------------------------------------------------------------------------
(* The names of the steps                                                   *)

\* C38: every next-step name a step can return is the name of a node
\* registered in build_graph: every action of the decision maker, the branch
\* of task_planner for every first task, and, wherever a run stands, every
\* goto of the step it is about to make; so a run always stands at a
\* registered node.
C38_EveryGotoIsRegistered ==
    /\ CommunicationActions \subseteq Nodes
    /\ \A tasks \in Plans : first_task_node(tasks) \in Nodes
    /\ entry_point \in Nodes
    /\ interrupt_before \subseteq Nodes
    /\ \A h \in Handlers :
          hs[h].pc = "run" =>
              /\ hs[h].node \in Nodes
              /\ \A r \in node_results(hs[h].node, hs[h].values, hs[h].text) :
                     r.goto \in Nodes \cup {END, Raise}
    /\ \A p \in Phones : ckpt[p].next \in Nodes \cup {None}

\* the planner has routed a plan that begins with remake to its step
C38_Witness ==
    /\ At("h1", "music_remake")
    /\ hs["h1"].values.task_queue = <<"remake">>

-----------------------------------------------------------------------------
(* The suspension at the selection                                          *)

\* the whole workflow with the stage and the music flag in view, and every
\* outcome of the downloads
InitSelection ==
    /\ Init0
    /\ cfg = [handlers |-> {"h1"}, phones |-> {"p1"},
              texts |-> {"2", "yeniden"}, delays |-> {0},
              horizon |-> 0, ids |-> 0, history |-> 0,
              restarts |-> TRUE,
              observe |-> {"current_stage", "is_music_generated"},
              watch |-> {}, streak |-> 0, track |-> {},
              limit |-> 0,
              actions |-> CommunicationActions,
              plans |-> { <<"music">>, <<"cover">>, <<"video">>,
                          <<"remake">> },
              audio |-> AudioData]

SpecSelection == InitSelection /\ [][Next]_vars

\* C39: whenever a conversation is suspended at music_selection_handler,
\* current_stage is awaiting_music_selection, is_music_generated is TRUE and
\* generated_audio_file_paths holds at least one downloaded file.
C39_SuspendedAtSelectionHasMusic ==
    \A p \in Phones :
        ckpt[p].next = "music_selection_handler" =>
            /\ ckpt[p].values.current_stage = "awaiting_music_selection"
            /\ ckpt[p].values.is_music_generated = TRUE
            /\ NotNone(ckpt[p].values.generated_audio_file_paths) # << >>

\* suspended at the selection after a remake of which one file only was
\* downloaded
C39_Witness ==
    /\ ckpt["p1"].next = "music_selection_handler"
    /\ hs["h1"].pc = "idle"
    /\ ckpt["p1"].values.generated_audio_file_paths = <<AudioPath(1), None>>

-----------------------------------------------------------------------------
(* Isolation of the identities                                              *)

\* two identities writing at the same time to the threaded server, at once
\* or after the window, in front of a workflow that only waits for the user
InitParallel ==
    /\ Init0
    /\ cfg = [NoScenario EXCEPT !.handlers = Handlers, !.phones = Phones,
                                !.texts = {"rain"},
                                !.delays = {0, 31}, !.horizon = MaxTime,
                                !.observe = {"user_request"},
                                !.actions = {"wait_user"}]

ParallelStep(h) ==
    \/ webhook(h)
    \/ webhook_ignored(h)
    \/ expired_phones(h)
    \/ delete_expired(h)
    \/ record_message(h)
    \/ get_state(h)
    \/ invoke_start(h)
    \/ invoke_resume(h)
    \/ communication_agent(h)
    \/ wait_user(h)

NextParallel == \E h \in Handlers : ParallelStep(h)

SpecParallel == InitParallel /\ [][NextParallel]_vars

\* the answer is_duplicate_message would give at time t to an event of
\* phone b, for every text and message id b can send, on the table pm
AnswersFor(pm, b, t) ==
    [ text \in cfg.texts |->
        [ m \in MessageIds(b, text) |->
            duplicate_decision(purge(pm, t), b, text, m, t) ] ]

\* the identity a step of the request handled by h is made for
IdentityOf(before, after) ==
    IF before.phone # None THEN before.phone ELSE after.phone

\* C40: identities are isolated: no step made for an event of identity A
\* changes the checkpoint (state and next step) of another identity B, or
\* the answer is_duplicate_message gives to any later event of B, also when
\* events of A and B are handled at the same time.
C40_IdentitiesAreIsolated ==
    [][ \A h \in Handlers :
          hs'[h] # hs[h] =>
              \A b \in Phones \ {IdentityOf(hs[h], hs'[h])} :
                  /\ ckpt'[b] = ckpt[b]
                  /\ \/ processed_messages'[b] = processed_messages[b]
                     \/ \A t \in now'..MaxTime :
                            AnswersFor(processed_messages', b, t)
                               = AnswersFor(processed_messages, b, t) ]_vars

=============================================================================
